---- MODULE Spec2Model ----
(***************************************************************************)
(* Model of run.py of image-labeller: the label schema (Label, Choice)     *)
(* and the interview loop of main().                                       *)
(*                                                                         *)
(* Python values are represented as follows.                               *)
(*   dict            a record; "k in d.keys()" is  "k" \in DOMAIN d        *)
(*   list            a sequence                                            *)
(*   None / a list   an optional value: None, or Some(list)                *)
(*   str / int cell  a tagged cell: StrCell(s) or IntCell(i)               *)
(*   a JSON string   used as a choice descriptor is the record             *)
(*                   [str |-> s]  (a dict descriptor has choice_name)      *)
(*   OrderedDict     a sequence of <<key, value>> pairs                    *)
(*   input line      a sequence of one-character strings                   *)
(***************************************************************************)
EXTENDS Integers, Sequences, FiniteSets, TLC

\* Rejected inputs the model allows at one prompt.
MaxTries == 2
\* The tool is started again only while the store has fewer rows than this.
MaxRows == 3

ROOT == "labels"

None == [some |-> FALSE, val |-> <<>>]
Some(v) == [some |-> TRUE, val |-> v]
\* Python truthiness of an optional list: None and [] are both falsy.
Truthy(o) == o.some /\ o.val # <<>>

StrCell(s) == [t |-> "str", s |-> s, i |-> 0]
IntCell(i) == [t |-> "int", s |-> "", i |-> i]

\* Outcome of evaluating an expression that may raise.
Ok(v) == [exc |-> "", val |-> v]
Raise(e) == [exc |-> e, val |-> None]

Min(S) == CHOOSE m \in S : \A n \in S : m <= n

(***************************************************************************)
(* Label schema model: Choice.__init__ and Label.__init__                  *)
(***************************************************************************)
SupportedTypes == {"categorical", "boolean", "leaf"}

\* A boolean label whose choices are None or empty gets [true, false].
BooleanDefault_OnlyNone(type, choices) ==
    IF type = "boolean" /\ ~choices.some
    THEN Some(<< [name |-> "true", labels |-> None],
                 [name |-> "false", labels |-> None] >>)
    ELSE choices

BooleanDefault(type, choices) ==
    IF type = "boolean" /\ ~Truthy(choices)
    THEN Some(<< [name |-> "true", labels |-> None],
                 [name |-> "false", labels |-> None] >>)
    ELSE choices

RECURSIVE Label(_), Choice(_)

\* [f(x) for x in seq]: the first element that raises decides the outcome.
Comprehension(rs) ==
    LET bad == {i \in DOMAIN rs : rs[i].exc # ""}
    IN  IF bad # {} THEN Raise(rs[Min(bad)].exc)
        ELSE Ok([i \in DOMAIN rs |-> rs[i].val])

Choice(choice) ==
    IF "choice_name" \in DOMAIN choice
    THEN IF "labels" \in DOMAIN choice
         THEN LET r == Comprehension([i \in DOMAIN choice.labels |->
                                         Label(choice.labels[i])])
              IN  IF r.exc # "" THEN r
                  ELSE Ok([name |-> choice.choice_name, labels |-> Some(r.val)])
         ELSE Ok([name |-> choice.choice_name, labels |-> None])
    ELSE Ok([name |-> choice.str, labels |-> None])

Label(label_dict) ==
    IF "label_name" \notin DOMAIN label_dict THEN Raise("KeyError")
    ELSE
    LET type == IF "type" \in DOMAIN label_dict THEN label_dict.type ELSE "leaf"
    IN  IF type \notin SupportedTypes THEN Raise("AssertionError")
        ELSE
        LET r == IF "choices" \in DOMAIN label_dict
                 THEN Comprehension([i \in DOMAIN label_dict.choices |->
                                        Choice(label_dict.choices[i])])
                 ELSE Ok(<<>>)
        IN  IF r.exc # "" THEN r
            ELSE Ok([name |-> label_dict.label_name,
                     type |-> type,
                     choices |-> BooleanDefault(type,
                                    IF "choices" \in DOMAIN label_dict
                                    THEN Some(r.val) ELSE None)])

(***************************************************************************)
(* Helpers of main()                                                       *)
(***************************************************************************)
\* int(line): optional surrounding blanks, optional sign, decimal digits.
Digits == <<"0", "1", "2", "3", "4", "5", "6", "7", "8", "9">>
IsDigit(c) == \E d \in DOMAIN Digits : Digits[d] = c
DigitVal(c) == (CHOOSE d \in DOMAIN Digits : Digits[d] = c) - 1

RECURSIVE Strip(_)
Strip(line) ==
    IF line = <<>> THEN line
    ELSE IF Head(line) = " " THEN Strip(Tail(line))
    ELSE IF line[Len(line)] = " " THEN Strip(SubSeq(line, 1, Len(line) - 1))
    ELSE line

RECURSIVE Decimal(_)
Decimal(ds) ==
    IF ds = <<>> THEN 0
    ELSE 10 * Decimal(SubSeq(ds, 1, Len(ds) - 1)) + DigitVal(ds[Len(ds)])

PyInt_Abs(line) ==
    LET s == Strip(line)
        signed == s # <<>> /\ Head(s) \in {"+", "-"}
        ds == IF signed THEN Tail(s) ELSE s
    IN  IF ds = <<>> \/ \E k \in DOMAIN ds : ~IsDigit(ds[k])
        THEN Raise("ValueError")
        ELSE Ok(Decimal(ds))

PyInt(line) ==
    LET s == Strip(line)
        signed == s # <<>> /\ Head(s) \in {"+", "-"}
        ds == IF signed THEN Tail(s) ELSE s
    IN  IF ds = <<>> \/ \E k \in DOMAIN ds : ~IsDigit(ds[k])
        THEN Raise("ValueError")
        ELSE Ok(IF signed /\ Head(s) = "-" THEN 0 - Decimal(ds) ELSE Decimal(ds))

\* choice_i in range(-1, len(label.choices))
InRange(choice_i, lbl) == choice_i >= -1 /\ choice_i < Len(lbl.choices.val)

\* label_list.pop(): the popped label and the list left behind.
PopLabel_First(list) == list[1]

PopLabel(list) == list[Len(list)]

PopRest_First(list) == Tail(list)

PopRest(list) == SubSeq(list, 1, Len(list) - 1)

\* OrderedDict item assignment and lookup.
HasKey(d, k) == \E j \in DOMAIN d : d[j][1] = k
Get(d, k) == d[CHOOSE j \in DOMAIN d : d[j][1] = k][2]
SetItem(d, k, v) ==
    IF HasKey(d, k)
    THEN [j \in DOMAIN d |-> IF d[j][1] = k THEN <<k, v>> ELSE d[j]]
    ELSE Append(d, <<k, v>>)

\* Lines 151-155: what a non-sentinel answer writes.
Record_NameForBoolean(results, lbl, choice_i) ==
    IF lbl.type \in {"categorical", "boolean"}
    THEN SetItem(results, lbl.name, StrCell(lbl.choices.val[choice_i + 1].name))
    ELSE results

Record_IndexForCategorical(results, lbl, choice_i) ==
    IF lbl.type \in {"categorical", "boolean"}
    THEN SetItem(results, lbl.name, IntCell(choice_i))
    ELSE results

Record(results, lbl, choice_i) ==
    IF lbl.type = "categorical"
    THEN SetItem(results, lbl.name, StrCell(lbl.choices.val[choice_i + 1].name))
    ELSE IF lbl.type = "boolean"
    THEN SetItem(results, lbl.name, IntCell(choice_i))
    ELSE results

\* Lines 146-158: the label list after an accepted answer.
Extend_OnSentinel(list, lbl, choice_i) ==
    LET c == IF choice_i = -1 THEN 1 ELSE choice_i + 1
    IN  IF Len(lbl.choices.val) > 0 /\ Truthy(lbl.choices.val[c].labels)
        THEN list \o lbl.choices.val[c].labels.val
        ELSE list

Extend_FirstChoice(list, lbl, choice_i) ==
    IF choice_i # -1 /\ Truthy(lbl.choices.val[1].labels)
    THEN list \o lbl.choices.val[1].labels.val
    ELSE list

Extend_SkipLeaf(list, lbl, choice_i) ==
    IF choice_i # -1 /\ lbl.type # "leaf"
       /\ Truthy(lbl.choices.val[choice_i + 1].labels)
    THEN list \o lbl.choices.val[choice_i + 1].labels.val
    ELSE list

Extend_Prepend(list, lbl, choice_i) ==
    IF choice_i # -1 /\ Truthy(lbl.choices.val[choice_i + 1].labels)
    THEN lbl.choices.val[choice_i + 1].labels.val \o list
    ELSE list

Extend(list, lbl, choice_i) ==
    IF choice_i # -1 /\ Truthy(lbl.choices.val[choice_i + 1].labels)
    THEN list \o lbl.choices.val[choice_i + 1].labels.val
    ELSE list

(***************************************************************************)
(* Inputs: label documents, image directory, record store, console lines   *)
(***************************************************************************)
\* [A, B]; choice X of A owns A1, whose choice "true" owns A2.
SchemaSub ==
    [labels |-> <<
        [label_name |-> "A", type |-> "categorical", choices |-> <<
            [choice_name |-> "X", labels |-> <<
                [label_name |-> "A1", type |-> "boolean", choices |-> <<
                    [choice_name |-> "true", labels |-> <<
                        [label_name |-> "A2", choices |-> <<>>] >>],
                    [str |-> "false"] >>] >>],
            [str |-> "Y"] >>],
        [label_name |-> "B", type |-> "boolean"] >>]

\* [A, B] without sub-labels; B is a boolean with an empty choice list.
SchemaFlat ==
    [labels |-> <<
        [label_name |-> "A", type |-> "categorical", choices |-> <<
            [str |-> "small"], [str |-> "medium"], [str |-> "large"] >>],
        [label_name |-> "B", type |-> "boolean", choices |-> <<>>] >>]

\* A is declared with a name only: kind leaf, no choices.
SchemaLeaf ==
    [labels |-> <<
        [label_name |-> "A"],
        [label_name |-> "B", type |-> "boolean"] >>]

\* A boolean with three explicit choices; a leaf with explicit choices.
SchemaExplicit ==
    [labels |-> <<
        [label_name |-> "A", type |-> "boolean", choices |-> <<
            [str |-> "yes"], [str |-> "no"], [str |-> "maybe"] >>],
        [label_name |-> "B", type |-> "leaf", choices |-> <<
            [choice_name |-> "P", labels |-> <<
                [label_name |-> "B1", type |-> "categorical", choices |-> <<
                    [str |-> "low"], [choice_name |-> "high"] >>],
                [label_name |-> "B2", type |-> "boolean"] >>],
            [str |-> "Q"] >>] >>]

\* Categorical labels without choices: absent, and an empty list.
SchemaNoChoices ==
    [labels |-> <<
        [label_name |-> "A", type |-> "categorical"],
        [label_name |-> "B", type |-> "categorical", choices |-> <<>>] >>]

SchemaUnsupported ==
    [labels |-> <<
        [label_name |-> "A", type |-> "boolean"],
        [label_name |-> "B", type |-> "unsupported"] >>]

SchemaUnsupportedNested ==
    [labels |-> <<
        [label_name |-> "A", type |-> "categorical", choices |-> <<
            [choice_name |-> "X", labels |-> <<
                [label_name |-> "A1", type |-> "unsupported"] >>] >>],
        [label_name |-> "B", type |-> "boolean"] >>]

SchemaNoName ==
    [labels |-> <<
        [label_name |-> "A", type |-> "boolean"],
        [type |-> "boolean"] >>]

\* A label that carries the name of an identifier column.
SchemaReserved ==
    [labels |-> <<
        [label_name |-> "filename", type |-> "categorical", choices |-> <<
            [str |-> "front"], [str |-> "side"] >>] >>]

\* [M, N]; the choice of N owns N1, whose choice owns N2.
SchemaDeep ==
    [labels |-> <<
        [label_name |-> "M", type |-> "categorical", choices |-> << [str |-> "u"] >>],
        [label_name |-> "N", type |-> "categorical", choices |-> <<
            [choice_name |-> "v", labels |-> <<
                [label_name |-> "N1", type |-> "categorical", choices |-> <<
                    [choice_name |-> "w", labels |-> <<
                        [label_name |-> "N2", type |-> "boolean"] >>] >>] >>] >>] >>]

Schemas == {SchemaSub, SchemaFlat, SchemaLeaf, SchemaExplicit, SchemaNoChoices,
            SchemaUnsupported, SchemaUnsupportedNested, SchemaNoName,
            SchemaReserved, SchemaDeep}

\* os.listdir(images_directory) and imghdr.what(...) == "png".
Files == {"a.png", "b.png", "notes.txt"}
IsPng(f) == f \in {"a.png", "b.png"}

Users == {"ann"}

StoredRow(f) == << <<"user_name", StrCell("bob")>>, <<"filename", StrCell(f)>> >>
\* The csv file: missing, or written by an earlier run.
InitialStores == {None, Some(<<StoredRow("a.png")>>),
                  Some(<<StoredRow("b.png"), StoredRow("a.png")>>)}

InputLines == { <<"0">>, <<"1">>, <<"2">>, <<"-", "1">>, <<"-", "2">>,
                <<" ", "1">>, <<"a">>, <<"1", ".", "0">> }

(***************************************************************************)
(* State of main()                                                         *)
(***************************************************************************)
VARIABLES
    labels,        \* the parsed label document (line 78)
    csv,           \* the csv file: None, or Some(rows)
    dataset,       \* the DataFrame, a sequence of rows
    remaining_images_filenames,
    user_name,
    filename,
    results,       \* the OrderedDict of the current image
    label_list,    \* the stack of pending labels
    label,         \* the label popped last
    choice_i,
    pc,            \* "start", "for", "while", "input", "done", "error"
    exc,           \* the uncaught exception when pc = "error"
    presented,     \* console: label names printed for the current image
    selections,    \* console: answers accepted for the current image
    tried,         \* console: lines typed at the current prompt
    store0,        \* history: the rows read from the csv when this run started
    traversed,     \* history: the images this run has taken from the loop
    pushed_at,     \* history: for each entry of label_list, the number of
                   \* labels presented when it was pushed
    recorded       \* history, across runs: the images whose row was written

vars == <<labels, csv, dataset, remaining_images_filenames, user_name, filename,
          results, label_list, label, choice_i, pc, exc, presented, selections,
          tried, store0, traversed, pushed_at, recorded>>

\* dataset["filename"].values; raises KeyError without that column.
FilenameColumn(df) ==
    IF \E r \in DOMAIN df : HasKey(df[r], "filename")
    THEN Ok({Get(df[r], "filename").s : r \in {q \in DOMAIN df : HasKey(df[q], "filename")}})
    ELSE Raise("KeyError")

NoLabel == [name |-> "", type |-> "leaf", choices |-> None]

Init ==
    /\ labels \in Schemas
    /\ csv \in InitialStores
    /\ dataset = <<>>
    /\ remaining_images_filenames = {}
    /\ user_name = ""
    /\ filename = ""
    /\ results = <<>>
    /\ label_list = <<>>
    /\ label = NoLabel
    /\ choice_i = -2
    /\ pc = "start"
    /\ exc = ""
    /\ presented = <<>>
    /\ selections = <<>>
    /\ tried = <<>>
    /\ store0 = <<>>
    /\ traversed = <<>>
    /\ pushed_at = <<>>
    /\ recorded = (IF csv.some THEN FilenameColumn(csv.val).val ELSE {})

\* Lines 98-103.
Remaining_All(total, df) == total

Remaining(total, df) ==
    IF FilenameColumn(df).exc = "" THEN total \ FilenameColumn(df).val ELSE total

\* Lines 72-111: load the store, list the images, ask the operator's name.
Startup ==
    /\ pc = "start"
    /\ dataset' = (IF csv.some THEN csv.val ELSE <<>>)
    /\ remaining_images_filenames' = Remaining({f \in Files : IsPng(f)}, dataset')
    /\ user_name' \in Users
    /\ pc' = "for"
    /\ store0' = dataset'
    /\ UNCHANGED <<labels, csv, filename, results, label_list, label, choice_i,
                   exc, presented, selections, tried, traversed, pushed_at,
                   recorded>>

\* Line 126: [Label(l) for l in labels[ROOT]].
RootLabels_Reversed(doc) ==
    Comprehension([i \in DOMAIN doc[ROOT] |->
                      Label(doc[ROOT][Len(doc[ROOT]) + 1 - i])])

RootLabels(doc) ==
    Comprehension([i \in DOMAIN doc[ROOT] |-> Label(doc[ROOT][i])])

\* Lines 113-126: next image, fresh results, labels built from the document.
ForImage ==
    /\ pc = "for"
    /\ remaining_images_filenames # {}
    /\ \E f \in remaining_images_filenames :
        /\ filename' = f
        /\ remaining_images_filenames' = remaining_images_filenames \ {f}
        /\ results' = << <<"user_name", StrCell(user_name)>>,
                         <<"filename", StrCell(f)>> >>
        /\ traversed' = Append(traversed, f)
    /\ presented' = <<>>
    /\ selections' = <<>>
    /\ tried' = <<>>
    /\ LET r == RootLabels(labels)
       IN  IF r.exc # ""
           THEN /\ pc' = "error"
                /\ exc' = r.exc
                /\ UNCHANGED <<label_list, pushed_at>>
           ELSE /\ pc' = "while"
                /\ label_list' = r.val
                /\ pushed_at' = [i \in DOMAIN r.val |-> 0]
                /\ UNCHANGED exc
    /\ UNCHANGED <<labels, csv, dataset, user_name, label, choice_i, store0,
                   recorded>>

\* Line 113, no image left: main returns.
ForExit ==
    /\ pc = "for"
    /\ remaining_images_filenames = {}
    /\ pc' = "done"
    /\ UNCHANGED <<labels, csv, dataset, remaining_images_filenames, user_name,
                   filename, results, label_list, label, choice_i, exc,
                   presented, selections, tried, store0, traversed, pushed_at,
                   recorded>>

\* Lines 128-138: pop a label, print it and its choices, start the prompt.
Pop ==
    /\ pc = "while"
    /\ label_list # <<>>
    /\ label' = PopLabel(label_list)
    /\ label_list' = PopRest(label_list)
    /\ presented' = Append(presented, label'.name)
    /\ pushed_at' = PopRest(pushed_at)
    /\ tried' = <<>>
    /\ IF label'.choices.some
       THEN /\ choice_i' = -2
            /\ pc' = "input"
            /\ UNCHANGED exc
       ELSE /\ pc' = "error"          \* enumerate(None)
            /\ exc' = "TypeError"
            /\ UNCHANGED choice_i
    /\ UNCHANGED <<labels, csv, dataset, remaining_images_filenames, user_name,
                   filename, results, selections, store0, traversed, recorded>>

\* Lines 139-143: a line that does not end the prompt loop.
Reject ==
    /\ pc = "input"
    /\ Len(tried) < MaxTries
    /\ \E line \in InputLines :
        /\ \/ PyInt(line).exc # "" /\ UNCHANGED choice_i
           \/ /\ PyInt(line).exc = ""
              /\ ~InRange(PyInt(line).val, label)
              /\ choice_i' = PyInt(line).val
        /\ tried' = Append(tried, line)
    /\ UNCHANGED <<labels, csv, dataset, remaining_images_filenames, user_name,
                   filename, results, label_list, label, pc, exc, presented,
                   selections, store0, traversed, pushed_at, recorded>>

\* Lines 139-158: a line that ends the prompt loop, and what follows it.
Accept ==
    /\ pc = "input"
    /\ \E line \in InputLines :
        /\ PyInt(line).exc = ""
        /\ InRange(PyInt(line).val, label)
        /\ choice_i' = PyInt(line).val
        /\ tried' = Append(tried, line)
    /\ selections' = Append(selections, <<label.name, choice_i'>>)
    /\ results' = (IF choice_i' = -1 THEN results
                   ELSE Record(results, label, choice_i'))
    /\ label_list' = Extend(label_list, label, choice_i')
    /\ pushed_at' = pushed_at \o
           [k \in 1..(Len(label_list') - Len(label_list)) |-> Len(presented)]
    /\ pc' = "while"
    /\ UNCHANGED <<labels, csv, dataset, remaining_images_filenames, user_name,
                   filename, label, exc, presented, store0, traversed,
                   recorded>>

\* Lines 160-161: the stack is empty; append the record and write the csv.
Save ==
    /\ pc = "while"
    /\ label_list = <<>>
    /\ dataset' = Append(dataset, results)
    /\ csv' = Some(dataset')
    /\ pc' = "for"
    /\ tried' = <<>>              \* no prompt is open any more
    /\ recorded' = recorded \cup {filename}
    /\ UNCHANGED <<labels, remaining_images_filenames, user_name, filename,
                   results, label_list, label, choice_i, exc, presented,
                   selections, store0, traversed, pushed_at>>

\* The process ends, at any point (killed, crashed or finished), and the
\* tool is started again on the same documents: only the csv file survives.
Rerun ==
    /\ pc # "start"
    /\ (csv.some => Len(csv.val) < MaxRows)
    /\ dataset' = <<>>
    /\ remaining_images_filenames' = {}
    /\ user_name' = ""
    /\ filename' = ""
    /\ results' = <<>>
    /\ label_list' = <<>>
    /\ label' = NoLabel
    /\ choice_i' = -2
    /\ pc' = "start"
    /\ exc' = ""
    /\ presented' = <<>>
    /\ selections' = <<>>
    /\ tried' = <<>>
    /\ store0' = <<>>
    /\ traversed' = <<>>
    /\ pushed_at' = <<>>
    /\ UNCHANGED <<labels, csv, recorded>>

\* The steps of one run of main().
Run == Startup \/ ForImage \/ ForExit \/ Pop \/ Reject \/ Accept \/ Save

Next == Run \/ Rerun

Spec == Init /\ [][Next]_vars

\* Inside a traversal the loop keeps popping and the operator keeps
\* answering: a prompt is eventually ended by an accepted line.
\* The run considered is not cut short from outside.
FairSpec == Init /\ [][Run]_vars /\ WF_vars(Pop) /\ WF_vars(Accept)

TypeOK ==
    /\ pc \in {"start", "for", "while", "input", "done", "error"}
    /\ exc \in {"", "AssertionError", "KeyError", "TypeError"}
    /\ Len(tried) <= MaxTries + 1

(***************************************************************************)
(* Vocabulary of the properties                                            *)
(***************************************************************************)
Range(seq) == {seq[i] : i \in DOMAIN seq}
Contains(seq, x) == \E i \in DOMAIN seq : seq[i] = x
\* Position of the first occurrence of x, 0 when there is none.
Index(seq, x) == IF Contains(seq, x) THEN Min({i \in DOMAIN seq : seq[i] = x}) ELSE 0
Reverse(seq) == [i \in DOMAIN seq |-> seq[Len(seq) + 1 - i]]
Keys(d) == {d[j][1] : j \in DOMAIN d}

Root == labels[ROOT]
RootNamed == \A i \in DOMAIN Root : "label_name" \in DOMAIN Root[i]
PassesConstruction ==
    Comprehension([i \in DOMAIN Root |-> Label(Root[i])]).exc = ""

\* A traversal has just been set up / has emptied its stack.
TraversalStarted == pc = "while" /\ presented = <<>>
TraversalReturned == pc = "while" /\ label_list = <<>>
InTraversal == pc \in {"while", "input"} \/ (pc = "error" /\ exc = "TypeError")

\* The line typed in this step, if one was typed.
Typed == pc = "input" /\ Len(tried') = Len(tried) + 1
TypedLine == tried'[Len(tried')]
\* The integer a console line denotes (independent of the parser).
NonInteger(line) == line \in {<<"a">>, <<"1", ".", "0">>}
IntOf(line) ==
    CASE line = <<"0">> -> 0
      [] line = <<"1">> -> 1
      [] line = <<" ", "1">> -> 1
      [] line = <<"2">> -> 2
      [] line = <<"-", "1">> -> -1
      [] line = <<"-", "2">> -> -2
NumChoices(lbl) == Len(lbl.choices.val)
\* This step answers the current label with a non-sentinel selection.
Answered == pc = "input" /\ pc' = "while" /\ choice_i' # -1

(***************************************************************************)
(* C1: sub-label expansion ordering                                        *)
(***************************************************************************)
\* The document is [A, B] and choice number k of A owns the one sub-label A1.
OwnsSubLabel(k) ==
    /\ Len(Root) = 2
    /\ RootNamed
    /\ "choices" \in DOMAIN Root[1]
    /\ k \in DOMAIN Root[1].choices
    /\ "labels" \in DOMAIN Root[1].choices[k]
    /\ Len(Root[1].choices[k].labels) = 1
    /\ "label_name" \in DOMAIN Root[1].choices[k].labels[1]
NameA == Root[1].label_name
NameB == Root[2].label_name
NameA1(k) == Root[1].choices[k].labels[1].label_name
SelectedForA(k) == Contains(selections, <<NameA, k - 1>>)

\* C1 as stated: for the root [A, B] where choice X of A owns A1, once the
\* operator has selected X for A, A1 was presented before B was presented.
C1_SubLabelBeforeB ==
    \A k \in 1..3 :
        (OwnsSubLabel(k) /\ SelectedForA(k) /\ Contains(presented, NameB))
            => /\ Contains(presented, NameA1(k))
               /\ Index(presented, NameA1(k)) < Index(presented, NameB)

\* C1 amended: for the root [A, B] where choice X of A owns A1, once the
\* operator has selected X for A, B was presented before A, and A1 is the
\* label on top of the stack and the next one presented after A.
C1_SubLabelRightAfterA ==
    \A k \in 1..3 :
        (OwnsSubLabel(k) /\ SelectedForA(k))
            => /\ Contains(presented, NameB) /\ Contains(presented, NameA)
               /\ Index(presented, NameB) < Index(presented, NameA)
               /\ IF Len(presented) = Index(presented, NameA)
                  THEN /\ pc = "while"
                       /\ label_list # <<>>
                       /\ label_list[Len(label_list)].name = NameA1(k)
                  ELSE presented[Index(presented, NameA) + 1] = NameA1(k)

C1_Witness ==
    /\ OwnsSubLabel(1) /\ SelectedForA(1)
    /\ presented = <<NameB, NameA, NameA1(1)>>
    /\ pc = "input"

(***************************************************************************)
(* C2: stack order                                                         *)
(***************************************************************************)
\* Every label popped so far came from the root: nothing was pushed.
NothingRevealed == Len(presented) + Len(label_list) = Len(Root)
RootNames == [i \in DOMAIN Root |-> Root[i].label_name]

\* C2: as long as no sub-label has been revealed, the labels presented are
\* the root labels in the reverse of their declaration order (for [A, B]:
\* first B, then A), whatever was answered; a traversal that returns with
\* nothing revealed has presented all of them.
C2_ReverseDeclarationOrder ==
    (InTraversal /\ RootNamed /\ NothingRevealed)
        => /\ Len(presented) <= Len(Root)
           /\ presented = SubSeq(Reverse(RootNames), 1, Len(presented))
           /\ TraversalReturned => presented = Reverse(RootNames)

C2_Witness ==
    /\ labels = SchemaFlat
    /\ presented = <<"B", "A">>
    /\ selections = << <<"B", -1>>, <<"A", 1>> >>
    /\ TraversalReturned

(***************************************************************************)
(* Well-formed documents and their size                                    *)
(***************************************************************************)
RECURSIVE WellFormedLabel(_), NodeCount(_)
\* Supported kind, a name, choices unless the kind allows none, recursively.
WellFormedLabel(d) ==
    /\ "label_name" \in DOMAIN d
    /\ "type" \in DOMAIN d => d.type \in {"categorical", "boolean", "leaf"}
    /\ ("type" \in DOMAIN d /\ d.type = "categorical")
           => ("choices" \in DOMAIN d /\ d.choices # <<>>)
    /\ "choices" \in DOMAIN d =>
           \A i \in DOMAIN d.choices :
               "labels" \in DOMAIN d.choices[i] =>
                   \A j \in DOMAIN d.choices[i].labels :
                       WellFormedLabel(d.choices[i].labels[j])
WellFormed == \A i \in DOMAIN Root : WellFormedLabel(Root[i])

RECURSIVE SumOver(_, _)
SumOver(f, S) == IF S = {} THEN 0
                 ELSE LET x == CHOOSE y \in S : TRUE IN f[x] + SumOver(f, S \ {x})
NodeCount(d) ==
    1 + (IF "choices" \in DOMAIN d
         THEN SumOver([i \in DOMAIN d.choices |->
                  IF "labels" \in DOMAIN d.choices[i]
                  THEN SumOver([j \in DOMAIN d.choices[i].labels |->
                                   NodeCount(d.choices[i].labels[j])],
                               DOMAIN d.choices[i].labels)
                  ELSE 0], DOMAIN d.choices)
         ELSE 0)
SchemaSize == SumOver([i \in DOMAIN Root |-> NodeCount(Root[i])], DOMAIN Root)

(***************************************************************************)
(* C3: no error inside the traversal                                       *)
(***************************************************************************)
\* C3: when every label of the document can be constructed, and in
\* particular when the document is well formed (a label declared with a
\* name only, hence a leaf without choices, included), no step of the run
\* ends in an uncaught exception.
C3_NoTraversalError == (PassesConstruction /\ WellFormed) => pc # "error"

(***************************************************************************)
(* C4: termination                                                         *)
(***************************************************************************)
\* C4: for a well-formed tree-shaped document and an operator who answers
\* every prompt, a traversal that has started reaches the empty stack and
\* returns, having presented at most as many labels as the tree has nodes.
C4_TraversalTerminates ==
    /\ (WellFormed /\ TraversalStarted) ~> TraversalReturned
    /\ [](WellFormed => Len(presented) <= SchemaSize)

(***************************************************************************)
(* C5: sentinel skip                                                       *)
(***************************************************************************)
SentinelTyped == Typed /\ ~NonInteger(TypedLine) /\ IntOf(TypedLine) = -1

\* C5: a step in which the operator types -1 leaves the result record and
\* the stack as they were (the stack being the stack before the pop without
\* the popped label), records the answer and goes back to the loop head.
C5_SentinelSkip ==
    [][/\ SentinelTyped =>
            /\ results' = results
            /\ label_list' = label_list
            /\ pc' = "while"
            /\ selections' = Append(selections, <<label.name, -1>>)
       /\ (pc = "while" /\ pc' \in {"input", "error"}) =>
            label_list = Append(label_list', label')
      ]_vars

\* -1 was typed for A of SchemaSub, whose first choice owns a sub-label.
C5_Witness ==
    /\ labels = SchemaSub
    /\ selections = << <<"B", 0>>, <<"A", -1>> >>
    /\ TraversalReturned
    /\ Keys(results) = {"user_name", "filename", "B"}

(***************************************************************************)
(* C6: input retry                                                         *)
(***************************************************************************)
ValidLine(line, lbl) ==
    /\ ~NonInteger(line)
    /\ IntOf(line) >= -1
    /\ IntOf(line) <= NumChoices(lbl) - 1

\* C6: a typed line that is not an integer in [-1, number_of_choices - 1]
\* changes neither the stack nor the result record and leaves the same
\* label at the prompt; a line that is one ends the prompt, and the integer
\* it denotes is the selection acted upon; short of the process ending, the
\* prompt ends in no other way.
C6_InputRetry ==
    [][/\ (Typed /\ ~ValidLine(TypedLine, label)) =>
            /\ label_list' = label_list
            /\ results' = results
            /\ pc' = "input"
            /\ label' = label
            /\ presented' = presented
            /\ selections' = selections
       /\ (Typed /\ ValidLine(TypedLine, label)) =>
            /\ pc' = "while"
            /\ choice_i' = IntOf(TypedLine)
            /\ selections' = Append(selections, <<label.name, IntOf(TypedLine)>>)
       /\ (pc = "input" /\ pc' \notin {"input", "start"}) =>
            (Typed /\ ValidLine(TypedLine, label))
      ]_vars

\* A non-integer, then an out-of-range integer, then a valid one.
C6_Witness ==
    /\ labels = SchemaFlat
    /\ tried = << <<"a">>, <<"2">>, <<"1">> >>
    /\ label.name = "B"
    /\ pc = "while"
    /\ choice_i = 1
    /\ HasKey(results, "B") /\ Get(results, "B") = IntCell(1)

(***************************************************************************)
(* C7: categorical recording                                               *)
(***************************************************************************)
\* Every column other than k is the same before and after the step.
OtherColumnsKept(k) ==
    /\ Keys(results') \ {k} = Keys(results) \ {k}
    /\ \A c \in Keys(results) \ {k} : Get(results', c) = Get(results, c)

\* C7: a step that answers a categorical label with index i >= 0 leaves the
\* name of the label's i-th choice under the label's name and writes no
\* other column.
C7_CategoricalRecording ==
    [][(Answered /\ label.type = "categorical") =>
            /\ choice_i' \in 0..(NumChoices(label) - 1)
            /\ HasKey(results', label.name)
            /\ Get(results', label.name) =
                   StrCell(label.choices.val[choice_i' + 1].name)
            /\ OtherColumnsKept(label.name)
      ]_vars

\* Index 2 of [small, medium, large] was selected for A.
C7_Witness ==
    /\ labels = SchemaFlat
    /\ Contains(selections, <<"A", 2>>)
    /\ HasKey(results, "A") /\ Get(results, "A") = StrCell("large")

(***************************************************************************)
(* C8: boolean recording                                                   *)
(***************************************************************************)
\* C8 as stated: a step that answers a boolean label writes the selected
\* index, not the choice name, under the label's name, and the value
\* written is 0 or 1.
C8_BooleanZeroOrOne ==
    [][(Answered /\ label.type = "boolean") =>
            /\ HasKey(results', label.name)
            /\ Get(results', label.name) = IntCell(choice_i')
            /\ Get(results', label.name) \in {IntCell(0), IntCell(1)}
      ]_vars

\* C8 amended: the value written is the selected index, which lies in
\* [0, number_of_choices - 1]; it is 0 or 1 when the label has at most two
\* choices, as every defaulted boolean label has.
C8_BooleanIndex ==
    [][(Answered /\ label.type = "boolean") =>
            /\ HasKey(results', label.name)
            /\ Get(results', label.name) = IntCell(choice_i')
            /\ choice_i' \in 0..(NumChoices(label) - 1)
            /\ NumChoices(label) <= 2 =>
                   Get(results', label.name) \in {IntCell(0), IntCell(1)}
      ]_vars

\* Both cases: a defaulted boolean answered 1, a three-choice one answered 2.
C8_Witness ==
    /\ labels = SchemaExplicit
    /\ HasKey(results, "A") /\ Get(results, "A") = IntCell(2)
    /\ HasKey(results, "B2") /\ Get(results, "B2") = IntCell(1)

(***************************************************************************)
(* C9: boolean defaulting                                                  *)
(***************************************************************************)
DescriptorType(d) == IF "type" \in DOMAIN d THEN d.type ELSE "leaf"
NoExplicitChoices(d) == "choices" \notin DOMAIN d \/ d.choices = <<>>
DescriptorChoiceName(c) == IF "choice_name" \in DOMAIN c THEN c.choice_name ELSE c.str

RECURSIVE DefaultingHolds(_, _)
\* The label l built from descriptor d, and every label beneath it.
DefaultingHolds(d, l) ==
    /\ (DescriptorType(d) = "boolean" /\ NoExplicitChoices(d)) =>
           /\ l.choices.some
           /\ Len(l.choices.val) = 2
           /\ l.choices.val[1].name = "true"
           /\ l.choices.val[2].name = "false"
           /\ \A i \in 1..2 : ~Truthy(l.choices.val[i].labels)
    /\ (DescriptorType(d) = "boolean" /\ ~NoExplicitChoices(d)) =>
           /\ l.choices.some
           /\ Len(l.choices.val) = Len(d.choices)
           /\ \A i \in DOMAIN d.choices :
                  l.choices.val[i].name = DescriptorChoiceName(d.choices[i])
    /\ ~NoExplicitChoices(d) =>
           \A i \in DOMAIN d.choices :
               "labels" \in DOMAIN d.choices[i] =>
                   /\ l.choices.val[i].labels.some
                   /\ Len(l.choices.val[i].labels.val) = Len(d.choices[i].labels)
                   /\ \A j \in DOMAIN d.choices[i].labels :
                          DefaultingHolds(d.choices[i].labels[j],
                                          l.choices.val[i].labels.val[j])

\* C9: in the labels built for an image, a boolean label declared without
\* choices (absent or empty) has exactly the choices true (index 0) and
\* false (index 1), neither owning sub-labels; one declared with choices
\* has exactly those.
C9_BooleanDefaulting ==
    TraversalStarted =>
        /\ Len(label_list) = Len(Root)
        /\ \A i \in DOMAIN Root : DefaultingHolds(Root[i], label_list[i])

\* B of SchemaFlat is a boolean declared with an empty list of choices.
C9_Witness ==
    /\ labels = SchemaFlat
    /\ TraversalStarted
    /\ label_list[2].type = "boolean"
    /\ Root[2].choices = <<>>
    /\ Len(label_list[2].choices.val) = 2

(***************************************************************************)
(* C10: schema validation                                                  *)
(***************************************************************************)
RECURSIVE UnsupportedIn(_)
\* Some descriptor at or beneath d names a kind that is not supported.
UnsupportedIn(d) ==
    \/ DescriptorType(d) \notin {"categorical", "boolean", "leaf"}
    \/ /\ "choices" \in DOMAIN d
       /\ \E i \in DOMAIN d.choices :
              /\ "labels" \in DOMAIN d.choices[i]
              /\ \E j \in DOMAIN d.choices[i].labels :
                     UnsupportedIn(d.choices[i].labels[j])
HasUnsupportedKind == \E i \in DOMAIN Root : UnsupportedIn(Root[i])

\* C10: with an unsupported kind anywhere in the document the run fails:
\* it never returns normally, whatever images remain, presents no label
\* and appends no record.
C10_UnsupportedKindFails ==
    HasUnsupportedKind =>
        /\ pc # "done"
        /\ pc \notin {"while", "input"}
        /\ presented = <<>>
        /\ dataset = (IF csv.some THEN csv.val ELSE <<>>) \/ pc = "start"

(***************************************************************************)
(* C11: idempotent resume                                                  *)
(***************************************************************************)
Eligible == {f \in Files : IsPng(f)}
\* The identifiers in the filename column of the store read at startup.
StoredIds ==
    UNION {{store0[r][j][2].s :
               j \in {q \in DOMAIN store0[r] : store0[r][q][1] = "filename"}} :
           r \in DOMAIN store0}
Started == pc # "start"

\* C11: in every run, whatever the order of the rows of the store and the
\* order in which the loop takes the images, no image whose identifier is in
\* the filename column at startup is traversed, the images traversed or
\* still to come are exactly the eligible ones not in that column, and a run
\* that returns has traversed each of them and appended one row for each.
C11_IdempotentResume ==
    Started =>
        /\ Range(traversed) \cap StoredIds = {}
        /\ Range(traversed) \cup remaining_images_filenames = Eligible \ StoredIds
        /\ pc \in {"while", "input"} => filename \notin StoredIds
        /\ pc = "done" =>
               /\ Range(traversed) = Eligible \ StoredIds
               /\ Len(dataset) = Len(store0) + Len(traversed)

\* a.png was in the store; the run traversed b.png only and returned.
C11_Witness ==
    /\ pc = "done"
    /\ StoredIds = {"a.png"}
    /\ traversed = <<"b.png">>
    /\ Len(dataset) = 2

(***************************************************************************)
(* C12: durability of partial progress                                     *)
(***************************************************************************)
\* The rows of the csv file as the next run would read them.
StoreRows == IF csv.some THEN csv.val ELSE <<>>
\* The number of traversals of this run that have completed.
Completed == IF pc \in {"while", "input"} THEN Len(traversed) - 1 ELSE Len(traversed)

\* C12: at any point at which a run may be interrupted, a traversal open or
\* not, the store holds the rows present at startup, unmodified and in
\* place, followed by one row for each image whose traversal completed in
\* this run, written before the next image is prompted for; and a run
\* (this one or one started after an interruption) traverses only images
\* that have no record yet, and all of them if it returns.
C12_DurableProgress ==
    pc \in {"for", "while", "input", "done"} =>
        /\ StoreRows = dataset
        /\ \A i \in DOMAIN store0 : dataset[i] = store0[i]
        /\ Len(StoreRows) = Len(store0) + Completed
        /\ pc \in {"while", "input"} => filename \notin recorded
        /\ pc = "done" => Eligible \subseteq recorded

(***************************************************************************)
(* C13: LIFO expansion                                                     *)
(***************************************************************************)
\* The sub-labels owned by the choice selected in this step (<<>> if none).
SubLabelsSelected ==
    IF Answered /\ Truthy(label.choices.val[choice_i' + 1].labels)
    THEN label.choices.val[choice_i' + 1].labels.val
    ELSE <<>>
\* This step pops the current label.
Popped == pc = "while" /\ pc' \in {"input", "error"}
\* The stack is set up for an image, or dropped with the process.
StackReset == pc = "for" \/ pc' = "start"

\* C13: a selection whose choice owns sub-labels puts all of them above
\* everything pending, in one step; the stack otherwise changes only by the
\* pop of its top entry; and the entry popped was pushed no earlier than
\* any entry left on the stack, so every label pushed by a selection, and
\* every label revealed beneath it, is presented before any label that was
\* pending when the selection was made.
C13_LifoExpansion ==
    [][ /\ (pc = "input" /\ pc' = "while") =>
               label_list' = label_list \o SubLabelsSelected
        /\ Popped =>
               /\ label_list = Append(label_list', label')
               /\ \A i \in DOMAIN pushed_at' :
                      pushed_at'[i] <= pushed_at[Len(pushed_at)]
        /\ (label_list' # label_list) =>
               \/ SubLabelsSelected # <<>>
               \/ Popped
               \/ StackReset
      ]_vars

\* N was answered while M was pending: N1, and N2 revealed beneath it, were
\* presented before M.
C13_Witness ==
    /\ labels = SchemaDeep
    /\ presented = <<"N", "N1", "N2", "M">>

(***************************************************************************)
(* C14: fresh, independent traversals over a read-only document            *)
(***************************************************************************)
\* The two identifier entries line 124 puts in a new record.
IdentifiersOnly ==
    results = << <<"user_name", StrCell(user_name)>>,
                 <<"filename", StrCell(filename)>> >>

\* C14: whenever the traversal of an image starts, the first image of a run
\* or a later one, the stack holds the root labels of the document in
\* declaration order (same names, same kinds) and the record holds exactly
\* the operator name and the image filename; and no step changes the
\* document, so what was answered for an earlier image has no effect on
\* either.
C14_FreshTraversal ==
    /\ [](TraversalStarted =>
            /\ RootNamed
            /\ Len(label_list) = Len(Root)
            /\ \A i \in DOMAIN Root :
                   /\ label_list[i].name = RootNames[i]
                   /\ label_list[i].type = DescriptorType(Root[i])
            /\ IdentifiersOnly)
    /\ [][labels' = labels]_vars

\* The traversal of a second image starts after the first image's record,
\* with an answer and a revealed sub-label in it, was appended.
C14_Witness ==
    /\ TraversalStarted
    /\ labels = SchemaExplicit
    /\ Len(traversed) = 2
    /\ Len(dataset) = Len(store0) + 1
    /\ Len(dataset[Len(dataset)]) = 4
    /\ Len(label_list) = 2

(***************************************************************************)
(* C15: leaf with explicit choices                                         *)
(***************************************************************************)
RECURSIVE Nodes(_)
\* The label descriptors of the document at and beneath descriptor d.
Nodes(d) ==
    {d} \cup
    (IF "choices" \in DOMAIN d
     THEN UNION {UNION {Nodes(d.choices[j].labels[i]) :
                           i \in DOMAIN d.choices[j].labels} :
                 j \in {q \in DOMAIN d.choices : "labels" \in DOMAIN d.choices[q]}}
     ELSE {})
AllNodes == UNION {Nodes(Root[i]) : i \in DOMAIN Root}
NodesNamed(name) == {n \in AllNodes : "label_name" \in DOMAIN n /\ n.label_name = name}
\* The names of the sub-labels the document gives to choice number k
\* (counted from 0) of the labels called name.
RevealedBy(name, k) ==
    UNION {IF /\ "choices" \in DOMAIN d
              /\ k + 1 \in DOMAIN d.choices
              /\ "labels" \in DOMAIN d.choices[k + 1]
           THEN {d.choices[k + 1].labels[i].label_name :
                    i \in DOMAIN d.choices[k + 1].labels}
           ELSE {} : d \in NodesNamed(name)}
IsLeafName(name) == \E n \in NodesNamed(name) : DescriptorType(n) = "leaf"
StackNames == {label_list[i].name : i \in DOMAIN label_list}

\* C15: a leaf label that has a choices list is prompted when popped; a
\* non-sentinel answer to a leaf label leaves the record as it was and
\* pushes the sub-labels of the selected choice; no column ever carries the
\* name of a leaf label; and the sub-labels revealed by an answer to a leaf
\* are on the stack or presented, hence all presented when the traversal
\* returns.
C15_LeafWithChoices ==
    /\ [][ /\ (Popped /\ label'.type = "leaf" /\ label'.choices.some) =>
                  /\ pc' = "input"
                  /\ choice_i' = -2
           /\ (Answered /\ label.type = "leaf") =>
                  /\ results' = results
                  /\ label_list' = label_list \o SubLabelsSelected
         ]_vars
    /\ [](pc \in {"while", "input"} =>
            /\ \A n \in AllNodes :
                   DescriptorType(n) = "leaf" => n.label_name \notin Keys(results)
            /\ \A i \in DOMAIN selections :
                   IsLeafName(selections[i][1]) =>
                       RevealedBy(selections[i][1], selections[i][2])
                           \subseteq (Range(presented) \cup StackNames))

\* Leaf B was answered with its choice P: B1 and B2 were presented, A was
\* answered too, and the record has no column B.
C15_Witness ==
    /\ labels = SchemaExplicit
    /\ TraversalReturned
    /\ Contains(selections, <<"B", 0>>)
    /\ presented = <<"B", "B2", "B1", "A">>
    /\ "A" \in Keys(results)
    /\ "B" \notin Keys(results)

(***************************************************************************)
(* C16: a categorical label without choices                                *)
(***************************************************************************)
\* C16: whenever a categorical label whose choices are absent or an empty
\* list is popped, the traversal ends there with an error: no prompt is
\* opened for it, so it cannot be passed over with the sentinel and the
\* traversal cannot go on to the next label or to the record.
C16_NoChoicesFatal ==
    [][ (Popped /\ label'.type = "categorical" /\ ~Truthy(label'.choices)) =>
            /\ pc' = "error"
            /\ exc' = "TypeError"
      ]_vars

(***************************************************************************)
(* C17: identifier columns                                                 *)
(***************************************************************************)
\* Record d starts with the operator name and image identifier f.
IdentifiedAs(d, f) ==
    /\ Len(d) >= 2
    /\ d[1] = <<"user_name", StrCell(user_name)>>
    /\ d[2] = <<"filename", StrCell(f)>>

\* C17: throughout a traversal the record starts with the entries user_name
\* and filename holding the operator name and the filename of the image
\* being labelled, and so does every record the run has appended, for
\* every document and every sequence of answers.
C17_IdentifiersKept ==
    /\ pc \in {"while", "input"} => IdentifiedAs(results, filename)
    /\ (Started /\ Len(dataset) >= Len(store0)) =>
           \A i \in 1..(Len(dataset) - Len(store0)) :
               IdentifiedAs(dataset[Len(store0) + i], traversed[i])

(***************************************************************************)
(* C18: a label is presented only if it was revealed                       *)
(***************************************************************************)
\* No two label descriptors of the document carry the same name.
TreeShaped == \A n, m \in AllNodes : n.label_name = m.label_name => n = m
\* The label presented in position i is a root label, or a sub-label of the
\* choice selected for a label presented before it.
RevealedBefore(i) ==
    \/ presented[i] \in Range(RootNames)
    \/ \E j \in 1..(i - 1) :
           /\ j <= Len(selections)
           /\ selections[j][1] = presented[j]
           /\ presented[i] \in RevealedBy(selections[j][1], selections[j][2])

\* C18: at every point of a traversal each label presented so far is a
\* root label or a sub-label of a choice selected earlier in the traversal,
\* no label of a tree-shaped document has been presented twice, and when
\* the traversal returns every root label has been presented (once).
C18_PresentedOnlyIfRevealed ==
    InTraversal =>
        /\ \A i \in DOMAIN presented : RevealedBefore(i)
        /\ TreeShaped =>
               \A i, j \in DOMAIN presented : presented[i] = presented[j] => i = j
        /\ TraversalReturned =>
               \A r \in DOMAIN Root :
                   Cardinality({i \in DOMAIN presented : presented[i] = RootNames[r]}) = 1

\* A was answered X and A1 "true": A1 and A2 were presented after A, choice
\* Y's and "false"'s nothing; both root labels were presented once.
C18_Witness ==
    /\ labels = SchemaSub
    /\ TraversalReturned
    /\ TreeShaped
    /\ presented = <<"B", "A", "A1", "A2">>
    /\ selections[2] = <<"A", 0>>
    /\ selections[3] = <<"A1", 0>>

(***************************************************************************)
(* C19: at most one record per image                                       *)
(***************************************************************************)
\* C19: whatever runs, complete or interrupted, have been made on the same
\* images, no two rows of the csv file carry the same filename, and no run
\* takes the same image twice.
C19_OneRecordPerImage ==
    /\ \A i, j \in DOMAIN StoreRows :
           Get(StoreRows[i], "filename") = Get(StoreRows[j], "filename") => i = j
    /\ \A i, j \in DOMAIN traversed : traversed[i] = traversed[j] => i = j

====
